---- MODULE Spec2Model ----
(***************************************************************************)
(* Subject/observer weather station of weather_station.py.                 *)
(*                                                                         *)
(* Numbers are Python floats in the source.  The model keeps every value   *)
(* as an integer count of thousandths (80.0 is 80000, 30.4 is 30400), so   *)
(* that round(x, 2) is a real conversion: it maps a count of thousandths   *)
(* to the nearest multiple of 10.  float('inf') and float('-inf') are the  *)
(* two integers PosInf and NegInf, beyond every value a reading can hold.  *)
(***************************************************************************)
EXTENDS Integers, Sequences, FiniteSets, TLC

\* ------------------------------------------------------------------------
\* Bounds of the model
\* ------------------------------------------------------------------------

\* registerObserver and removeObserver calls in one behaviour, after the
\* registrations of the constructors
MaxChanges == 2

\* ------------------------------------------------------------------------
\* Values
\* ------------------------------------------------------------------------

\* float('inf'), in thousandths
PosInf == 1000000000

\* float('-inf')
NegInf == 0 - PosInf

\* The readings a caller may pass to setMeasurements, as <<temperature,
\* humidity, pressure>> in thousandths: the three readings of
\* WeatherStation.main and one with three decimals and a negative field.
\* No computation of the program on these readings lands on an exact tie
\* of round(x, 2), where the binary value of the float would decide.
Readings ==
    { <<80000, 65000, 30400>>,
      <<82000, 70000, 29200>>,
      <<78000, 90000, 29200>>,
      <<-5004, 40124, 29936>> }

\* The observer objects a driver may construct, and the class of each.
Observers == {"current", "statistics", "forecast"}

Kind(o) == o

\* The displays that keep statistics, and those that keep a forecast
StatsDisplays == {o \in Observers : Kind(o) = "statistics"}

ForecastDisplays == {o \in Observers : Kind(o) = "forecast"}

\* A min with its comparison the wrong way round
PyMinFlipped(a, b) == IF b > a THEN b ELSE a

\* min(a, b) and max(a, b) of Python
PyMin(a, b) == IF b < a THEN b ELSE a

PyMax(a, b) == IF b > a THEN b ELSE a

\* x / s rounded to the nearest integer, ties to the even one (s even, s > 0)
RoundHalfEven(x, s) ==
    LET q == x \div s
        r == x % s
    IN  IF 2 * r < s THEN q
        ELSE IF 2 * r > s THEN q + 1
        ELSE IF q % 2 = 0 THEN q ELSE q + 1

\* round(x, 2) of a value x in thousandths; round(inf, 2) is inf
Round2(x) ==
    IF x = PosInf \/ x = NegInf THEN x ELSE 10 * RoundHalfEven(x, 10)

\* round(y, 2) of a value y in units of 10^-5, the result in thousandths
Round2Fine(y) == 10 * RoundHalfEven(y, 1000)

\* ------------------------------------------------------------------------
\* The observer objects
\* ------------------------------------------------------------------------

\* WeatherDataObserver.__init__: the attributes every observer starts with
BaseAttrs == [temperature |-> 0, humidity |-> 0, pressure |-> 0]

\* StatisticsDisplay.__init__: the nine accumulators
StatsAttrs ==
    [min_temp |-> PosInf, average_temp |-> 0, max_temp |-> NegInf,
     min_humidity |-> PosInf, average_humidity |-> 0, max_humidity |-> NegInf,
     min_pressure |-> PosInf, average_pressure |-> 0, max_pressure |-> NegInf]

\* ForecastDisplay.__init__: the forecast triple
ForecastAttrs == [forcast_temp |-> 0, forcast_humidity |-> 0, forcast_pressure |-> 0]

\* The attributes of a freshly constructed observer o
InitObj(o) ==
    CASE Kind(o) = "current" -> BaseAttrs
      [] Kind(o) = "statistics" -> BaseAttrs @@ StatsAttrs
      [] Kind(o) = "forecast" -> BaseAttrs @@ ForecastAttrs

\* An average that leaves out the division by 2
AverageOfSum(mn, mx) == Round2(mx + mn)

\* round((max + min) / 2, 2), max and min in thousandths
Average(mn, mx) == 10 * RoundHalfEven(mx + mn, 20)

\* StatisticsDisplay.calculate_stats on the attributes a
calculate_stats(a) ==
    LET mnT == Round2(PyMin(a.min_temp, a.temperature))
        mxT == Round2(PyMax(a.max_temp, a.temperature))
        mnH == Round2(PyMin(a.min_humidity, a.humidity))
        mxH == Round2(PyMax(a.max_humidity, a.humidity))
        mnP == Round2(PyMin(a.min_pressure, a.pressure))
        mxP == Round2(PyMax(a.max_pressure, a.pressure))
    IN  [a EXCEPT !.min_temp = mnT, !.max_temp = mxT,
                  !.average_temp = Average(mnT, mxT),
                  !.min_humidity = mnH, !.max_humidity = mxH,
                  !.average_humidity = Average(mnH, mxH),
                  !.min_pressure = mnP, !.max_pressure = mxP,
                  !.average_pressure = Average(mnP, mxP)]

\* A forecast with the coefficients of humidity and pressure exchanged
ForecastTempSwapped(t, h, p) == Round2Fine(100 * t + 22 * h + 11 * p)

\* The three formulas of ForecastDisplay.calculate_forcast, on values in
\* thousandths; the sums are formed in units of 10^-5 and rounded once.
ForecastTemp(t, h, p) == Round2Fine(100 * t + 11 * h + 22 * p)

ForecastHumidity(h) == Round2Fine(100 * h - 90 * h)

ForecastPressure(t, p) == Round2Fine(100 * p + 10 * t - 21 * p)

\* A calculate_forcast that smooths the new forecast with the one it holds
calculate_forcast_smoothed(a) ==
    [a EXCEPT !.forcast_temp =
                  Average(a.forcast_temp,
                          ForecastTemp(a.temperature, a.humidity, a.pressure)),
              !.forcast_humidity =
                  Average(a.forcast_humidity, ForecastHumidity(a.humidity)),
              !.forcast_pressure =
                  Average(a.forcast_pressure,
                          ForecastPressure(a.temperature, a.pressure))]

\* ForecastDisplay.calculate_forcast on the attributes a
calculate_forcast(a) ==
    [a EXCEPT !.forcast_temp = ForecastTemp(a.temperature, a.humidity, a.pressure),
              !.forcast_humidity = ForecastHumidity(a.humidity),
              !.forcast_pressure = ForecastPressure(a.temperature, a.pressure)]

\* A display() whose statistics keep a running mean: each call averages
\* the average it holds with the stored temperature
display_running_mean(k, a) ==
    CASE k = "current" -> a
      [] k = "statistics" ->
            [calculate_stats(a) EXCEPT
                !.average_temp = Average(a.average_temp, a.temperature)]
      [] k = "forecast" -> calculate_forcast(a)

\* display() of an observer of kind k: the attributes it leaves behind
display(k, a) ==
    CASE k = "current" -> a
      [] k = "statistics" -> calculate_stats(a)
      [] k = "forecast" -> calculate_forcast(a)

\* The values display() prints, read from the attributes it has just set
Rendered(k, a) ==
    CASE k = "current" -> <<a.temperature, a.humidity, a.pressure>>
      [] k = "statistics" ->
            <<a.min_temp, a.max_temp, a.average_temp,
              a.min_humidity, a.max_humidity, a.average_humidity,
              a.min_pressure, a.max_pressure, a.average_pressure>>
      [] k = "forecast" -> <<a.forcast_temp, a.forcast_humidity, a.forcast_pressure>>

\* The three assignments of WeatherDataObserver.update
StoreReading(a, t, h, p) ==
    [a EXCEPT !.temperature = t, !.humidity = h, !.pressure = p]

\* An update that calls display() first and stores the three fields after
update_display_first(k, a, t, h, p) == StoreReading(display(k, a), t, h, p)

\* WeatherDataObserver.update: store the three fields, then display()
update(k, a, t, h, p) == display(k, StoreReading(a, t, h, p))

\* ------------------------------------------------------------------------
\* The subject's list
\* ------------------------------------------------------------------------

\* The entries of a list
Range(s) == {s[i] : i \in 1..Len(s)}

\* How many entries of s are x
Count(s, x) == Cardinality({i \in 1..Len(s) : s[i] = x})

\* A remove that deletes the last entry equal to x
IndexOfLast(s, x) ==
    CHOOSE i \in 1..Len(s) : s[i] = x /\ \A j \in (i + 1)..Len(s) : s[j] # x

\* The index list.remove(x) deletes: the first entry equal to x
IndexOf(s, x) == CHOOSE i \in 1..Len(s) : s[i] = x /\ \A j \in 1..(i - 1) : s[j] # x

\* s without its i-th entry
RemoveAt(s, i) == SubSeq(s, 1, i - 1) \o SubSeq(s, i + 1, Len(s))

\* A registerObserver that puts the new entry at the head of the list
ListAppendFront(s, x) == <<x>> \o s

\* list.append(x)
ListAppend(s, x) == Append(s, x)

\* ------------------------------------------------------------------------
\* State
\* ------------------------------------------------------------------------

VARIABLES
    observers,      \* Subject.observers
    temperature,    \* WeatherData.temperature
    humidity,       \* WeatherData.humidity
    pressure,       \* WeatherData.pressure
    obj,            \* the attributes of each observer object
    pc,             \* "idle", "notifying" inside notifyObservers, or
                    \* "ValueError" once that exception has left a call
    idx,            \* position of the list iterator of notifyObservers
    registered,     \* history: the live registrations, oldest first
    args,           \* history: the arguments of the last setMeasurements
    startList,      \* history: the list when the cycle in progress began
    calls,          \* history: the update invocations of the cycle in progress
    notified,       \* history: the observers update has been invoked on
    seen,           \* history: per StatisticsDisplay, the readings update was
                    \*          given
    last,           \* history: per observer, the reading update was given last
    preFolded,      \* history: per observer, a display() before any update
                    \*          changed its attributes
    nchanges        \* history: registerObserver and removeObserver calls so far

vars ==
    <<observers, temperature, humidity, pressure, obj, pc, idx,
      registered, args, startList, calls, notified, seen, last, preFolded,
      nchanges>>

station == <<temperature, humidity, pressure>>

cycle == <<pc, idx, args, startList, calls>>

received == <<notified, seen, last>>

\* The list after the constructors of WeatherStation.main have run: each of
\* the three displays registered itself, in the order of construction
DriverOrder == <<"current", "statistics", "forecast">>

\* WeatherStation.main up to its first setMeasurements: WeatherData() (with
\* Subject.__init__), then the three displays, each constructor setting
\* the attributes and registering the new observer with the subject
Init ==
    /\ observers = DriverOrder
    /\ temperature = 0
    /\ humidity = 0
    /\ pressure = 0
    /\ obj = [o \in Observers |-> InitObj(o)]
    /\ pc = "idle"
    /\ idx = 1
    /\ registered = DriverOrder
    /\ args = <<0, 0, 0>>
    /\ startList = <<>>
    /\ calls = <<>>
    /\ notified = {}
    /\ seen = [o \in StatsDisplays |-> {}]
    /\ last = [o \in Observers |-> <<0, 0, 0>>]
    /\ preFolded = [o \in Observers |-> FALSE]
    /\ nchanges = 0

\* The registrations left when the oldest live registration of o is withdrawn
Withdraw(s, o) ==
    LET first == CHOOSE i \in 1..Len(s) : s[i] = o /\ \A j \in 1..(i - 1) : s[j] # o
    IN  [k \in 1..(Len(s) - 1) |-> IF k < first THEN s[k] ELSE s[k + 1]]

\* A registerObserver that hands the station's current reading to the new
\* observer on the spot
RegisterObserverPushing(o) ==
    /\ pc = "idle"
    /\ nchanges < MaxChanges
    /\ observers' = ListAppend(observers, o)
    /\ registered' = Append(registered, o)
    /\ nchanges' = nchanges + 1
    /\ obj' = [obj EXCEPT ![o] = update(Kind(o), @, temperature, humidity, pressure)]
    /\ UNCHANGED <<station, cycle, received, preFolded>>

\* Subject.registerObserver(o)
RegisterObserver(o) ==
    /\ pc = "idle"
    /\ nchanges < MaxChanges
    /\ observers' = ListAppend(observers, o)
    /\ registered' = Append(registered, o)
    /\ nchanges' = nchanges + 1
    /\ UNCHANGED <<station, obj, cycle, received, preFolded>>

\* Subject.removeObserver(o), o in the list
RemoveObserver(o) ==
    /\ pc = "idle"
    /\ nchanges < MaxChanges
    /\ o \in Range(observers)
    /\ observers' = RemoveAt(observers, IndexOf(observers, o))
    /\ registered' = Withdraw(registered, o)
    /\ nchanges' = nchanges + 1
    /\ UNCHANGED <<station, obj, cycle, received, preFolded>>

\* A removeObserver that deletes with the index of a search that answers -1
\* when it finds nothing: the last entry goes, and no exception is raised
RemoveObserverAbsentDelLast(o) ==
    /\ pc = "idle"
    /\ o \notin Range(observers)
    /\ observers # <<>>
    /\ observers' = SubSeq(observers, 1, Len(observers) - 1)
    /\ UNCHANGED <<station, obj, cycle, registered, received, preFolded, nchanges>>

\* Subject.removeObserver(o), o not in the list: list.remove raises
\* ValueError before it changes anything, and nothing in the program
\* catches the exception
RemoveObserverAbsent(o) ==
    /\ pc = "idle"
    /\ o \notin Range(observers)
    /\ pc' = "ValueError"
    /\ UNCHANGED <<observers, station, obj, idx, args, startList, calls,
                   registered, received, preFolded, nchanges>>

\* A setMeasurements that goes on to notify without having stored the
\* pressure
SetMeasurementsPressureLate(r) ==
    /\ pc = "idle"
    /\ temperature' = r[1]
    /\ humidity' = r[2]
    /\ pc' = "notifying"
    /\ idx' = 1
    /\ args' = r
    /\ startList' = observers
    /\ calls' = <<>>
    /\ UNCHANGED <<pressure, observers, obj, registered, received, preFolded, nchanges>>

\* WeatherData.setMeasurements(t, h, p) up to the start of the loop of
\* notifyObservers
SetMeasurements(r) ==
    /\ pc = "idle"
    /\ temperature' = r[1]
    /\ humidity' = r[2]
    /\ pressure' = r[3]
    /\ pc' = "notifying"
    /\ idx' = 1
    /\ args' = r
    /\ startList' = observers
    /\ calls' = <<>>
    /\ UNCHANGED <<observers, obj, registered, received, preFolded, nchanges>>

\* A loop that walks the list as the constructors left it
YieldedStale == IF idx <= Len(DriverOrder) THEN DriverOrder[idx] ELSE observers[idx]

\* The entry the list iterator of notifyObservers yields at its position
Yielded == observers[idx]

\* A notifyObservers that passes humidity and temperature in each other's place
UpdateArgsSwapped == <<humidity, temperature, pressure>>

\* The arguments notifyObservers passes to update
UpdateArgs == <<temperature, humidity, pressure>>

\* An update on observer o whose three assignments land in attributes all
\* the observers share
DeliverShared(o) ==
    /\ obj' = [p \in Observers |->
                  IF p = o
                  THEN update(Kind(o), obj[o], UpdateArgs[1], UpdateArgs[2], UpdateArgs[3])
                  ELSE StoreReading(obj[p], UpdateArgs[1], UpdateArgs[2], UpdateArgs[3])]
    /\ calls' = Append(calls, [ob |-> o, r |-> UpdateArgs])
    /\ notified' = notified \cup {o}
    /\ seen' = [s \in StatsDisplays |-> IF s = o THEN seen[s] \cup {UpdateArgs}
                                                ELSE seen[s]]
    /\ last' = [last EXCEPT ![o] = UpdateArgs]

\* ob.update(temperature, humidity, pressure) on observer o, display included
Deliver(o) ==
    /\ obj' = [obj EXCEPT ![o] = update(Kind(o), @, UpdateArgs[1], UpdateArgs[2],
                                        UpdateArgs[3])]
    /\ calls' = Append(calls, [ob |-> o, r |-> UpdateArgs])
    /\ notified' = notified \cup {o}
    /\ seen' = [s \in StatsDisplays |-> IF s = o THEN seen[s] \cup {UpdateArgs}
                                                ELSE seen[s]]
    /\ last' = [last EXCEPT ![o] = UpdateArgs]

\* One iteration of the loop of notifyObservers: the iterator yields the
\* entry at its position and that observer's update runs
NotifyStep ==
    /\ pc = "notifying"
    /\ idx <= Len(observers)
    /\ Deliver(Yielded)
    /\ idx' = idx + 1
    /\ UNCHANGED <<observers, station, pc, registered, args, startList,
                   preFolded, nchanges>>

\* The iterator is exhausted: notifyObservers, measurementsChanged and
\* setMeasurements return, and the iterator is gone
NotifyDone ==
    /\ pc = "notifying"
    /\ idx > Len(observers)
    /\ pc' = "idle"
    /\ idx' = 1
    /\ startList' = <<>>
    /\ calls' = <<>>
    /\ UNCHANGED <<observers, station, obj, registered, args, received,
                   preFolded, nchanges>>

\* A caller invokes o.display() itself
Display(o) ==
    /\ pc = "idle"
    /\ obj' = [obj EXCEPT ![o] = display(Kind(o), @)]
    /\ preFolded' = [preFolded EXCEPT
                        ![o] = @ \/ (o \notin notified /\ display(Kind(o), obj[o]) # obj[o])]
    /\ UNCHANGED <<observers, station, cycle, registered, received, nchanges>>

Next ==
    \/ \E o \in Observers : RegisterObserver(o)
    \/ \E o \in Observers : RemoveObserver(o)
    \/ \E o \in Observers : RemoveObserverAbsent(o)
    \/ \E r \in Readings : SetMeasurements(r)
    \/ NotifyStep
    \/ NotifyDone
    \/ \E o \in Observers : Display(o)

Spec == Init /\ [][Next]_vars

\* One iteration of the loop of notifyObservers on an observer whose update
\* (through its display) calls removeObserver on itself: update runs as
\* in WeatherDataObserver.update, list.remove deletes the observer's first
\* entry, and the iterator then moves on over the list as it now is
NotifyStepDeregistering ==
    /\ pc = "notifying"
    /\ idx <= Len(observers)
    /\ nchanges < MaxChanges
    /\ Deliver(Yielded)
    /\ observers' = RemoveAt(observers, IndexOf(observers, Yielded))
    /\ registered' = Withdraw(registered, Yielded)
    /\ nchanges' = nchanges + 1
    /\ idx' = idx + 1
    /\ UNCHANGED <<station, pc, args, startList, preFolded>>

NextSelfRemove ==
    \/ Next
    \/ NotifyStepDeregistering

\* The subject with observers that may deregister themselves inside update
SpecSelfRemove == Init /\ [][NextSelfRemove]_vars

\* One iteration of the loop of notifyObservers on an observer whose update
\* (through its display) calls registerObserver on itself: update runs as
\* in WeatherDataObserver.update, list.append adds an entry at the end, and
\* the iterator then moves on over the list as it now is
NotifyStepRegistering ==
    /\ pc = "notifying"
    /\ idx <= Len(observers)
    /\ nchanges < MaxChanges
    /\ Deliver(Yielded)
    /\ observers' = ListAppend(observers, Yielded)
    /\ registered' = Append(registered, Yielded)
    /\ nchanges' = nchanges + 1
    /\ idx' = idx + 1
    /\ UNCHANGED <<station, pc, args, startList, preFolded>>

NextCallbacks ==
    \/ NextSelfRemove
    \/ NotifyStepRegistering

\* The subject with observers that may deregister or register themselves
\* inside update
SpecCallbacks == Init /\ [][NextCallbacks]_vars

\* ------------------------------------------------------------------------
\* Properties
\* ------------------------------------------------------------------------

\* The observers of the update invocations of the cycle, in order
CallObs == [i \in 1..Len(calls) |-> calls[i].ob]

\* The loop of notifyObservers has run to its end
CycleEnd == pc = "notifying" /\ idx > Len(observers)

\* C1: one setMeasurements(t, h, p) on a list of N entries makes exactly N
\* update invocations, the i-th on the i-th entry of the list as it was
\* when the call began, and each receives (t, h, p).
C1_FanOutComplete ==
    pc = "notifying" =>
        /\ Len(calls) <= Len(startList)
        /\ \A i \in 1..Len(calls) : calls[i].ob = startList[i] /\ calls[i].r = args
        /\ CycleEnd => Len(calls) = Len(startList)

\* A call on a list of four entries (one observer registered twice) is
\* about to return after four invocations; it is not the first call
C1_Witness ==
    /\ CycleEnd
    /\ \E s \in StatsDisplays : Cardinality(seen[s]) >= 2
    /\ Len(startList) = 4
    /\ Len(calls) = 4

\* C2: whatever registerObserver and removeObserver calls came before, a
\* cycle invokes update on the live registrations, oldest first: the i-th
\* invocation goes to the i-th oldest live registration, and at the end of
\* the loop every live registration has had its invocation.
C2_RegistrationOrder ==
    pc = "notifying" =>
        /\ Len(calls) <= Len(registered)
        /\ \A i \in 1..Len(calls) : calls[i].ob = registered[i]
        /\ CycleEnd => Len(calls) = Len(registered)

\* A cycle ends after a removeObserver and a later registerObserver have
\* changed the order the constructors left
C2_Witness ==
    /\ CycleEnd
    /\ nchanges = 2
    /\ Len(registered) = 3
    /\ registered # DriverOrder
    /\ Len(calls) = 3

\* C3: while observer o has no entry in the list, no step other than a
\* direct o.display() touches it: no cycle invokes o.update, and o's stored
\* reading and derived state stay as they are; the removeObserver step that
\* takes o's last entry away leaves them as they are too.
C3_DeregistrationEffect ==
    [][\A o \in Observers :
          (Count(observers', o) = 0
             /\ ~(pc = "idle" /\ pc' = "idle" /\ observers' = observers))
          => /\ obj'[o] = obj[o]
             /\ (o \in notified' <=> o \in notified)
             /\ last'[o] = last[o]
             /\ (Len(calls') > Len(calls) => calls'[Len(calls')].ob # o)]_vars

\* An observer was notified, was then removed, and a later cycle with
\* another reading has gone by without it: it still holds the old reading
C3_Witness ==
    \E o \in Observers :
        /\ pc = "idle"
        /\ Count(observers, o) = 0
        /\ o \in notified
        /\ args # last[o]
        /\ \E p \in Observers : p \in notified /\ last[p] = args
        /\ <<obj[o].temperature, obj[o].humidity, obj[o].pressure>> = last[o]
        /\ <<obj[o].temperature, obj[o].humidity, obj[o].pressure>> # station

\* Observer o has as many entries in the list as when the cycle began
KeptEntries(o) == Count(observers, o) = Count(startList, o)

\* C4: when observers deregister themselves inside their own update, the
\* cycle still goes over the list as it was when the cycle began: at the
\* end of the loop the observers that did not deregister have each had
\* their invocations, one per entry they had at the start, in list order.
C4_SelfDeregistrationSafe ==
    CycleEnd =>
        SelectSeq(CallObs, KeptEntries) = SelectSeq(startList, KeptEntries)

\* The loop has ended after an observer deregistered itself during the cycle
C4_Witness ==
    /\ CycleEnd
    /\ Len(observers) < Len(startList)

\* The accumulators of field f (1 temperature, 2 humidity, 3 pressure) in
\* the attributes a of a StatisticsDisplay
MinOf(a, f) == CASE f = 1 -> a.min_temp [] f = 2 -> a.min_humidity [] f = 3 -> a.min_pressure

MaxOf(a, f) == CASE f = 1 -> a.max_temp [] f = 2 -> a.max_humidity [] f = 3 -> a.max_pressure

AvgOf(a, f) ==
    CASE f = 1 -> a.average_temp [] f = 2 -> a.average_humidity [] f = 3 -> a.average_pressure

\* The reading an observer's attributes store
Stored(a) == <<a.temperature, a.humidity, a.pressure>>

SetMin(S) == CHOOSE x \in S : \A y \in S : x <= y

SetMax(S) == CHOOSE x \in S : \A y \in S : x >= y

\* The values of field f that update has delivered to observer o
DeliveredValues(o, f) == {r[f] : r \in seen[o]}

\* The reading update delivered to o last
LastDelivered(o) == last[o]

\* The values of field f that display() has folded into o's accumulators:
\* those delivered, and the initial 0 when display() ran before any update
FoldedValues(o, f) == DeliveredValues(o, f) \cup (IF preFolded[o] THEN {0} ELSE {})

\* The temperatures 80, 82, 78 delivered one after the other to a fresh
\* StatisticsDisplay give (min, max, average) (80, 80, 80.0), (80, 82, 81.0),
\* (78, 82, 80.0)
StatsExample ==
    \A s \in StatsDisplays :
        ~preFolded[s] =>
            LET temps == DeliveredValues(s, 1)
                shown == <<obj[s].min_temp, obj[s].max_temp, obj[s].average_temp>>
            IN  /\ temps = {80000} => shown = <<80000, 80000, 80000>>
                /\ temps = {80000, 82000} => shown = <<80000, 82000, 81000>>
                /\ temps = {80000, 82000, 78000} => shown = <<78000, 82000, 80000>>

C6_FirstReading ==
    \A s \in StatsDisplays :
        /\ (seen[s] = {} /\ ~preFolded[s]) =>
              \A f \in 1..3 :
                  /\ MinOf(obj[s], f) = PosInf
                  /\ MaxOf(obj[s], f) = NegInf
                  /\ AvgOf(obj[s], f) = 0
        /\ Cardinality(seen[s]) = 1 =>
              \A f \in 1..3 :
                  /\ MinOf(obj[s], f) = Round2(LastDelivered(s)[f])
                  /\ MaxOf(obj[s], f) = Round2(LastDelivered(s)[f])
                  /\ AvgOf(obj[s], f) = Round2(LastDelivered(s)[f])

\* C7: in every reachable state and for each display, a display() that
\* follows a display() with no update in between prints the same values
\* and leaves the attributes as they are.
C7_DisplayIdempotent ==
    \A o \in Observers :
        LET once == display(Kind(o), obj[o])
            twice == display(Kind(o), once)
        IN  /\ Rendered(Kind(o), twice) = Rendered(Kind(o), once)
            /\ twice = once

\* A StatisticsDisplay that was displayed before its first update holds
\* readings that differ, and the forecast display holds a reading too
C7_Witness ==
    /\ pc = "idle"
    /\ \E s \in StatsDisplays :
          /\ preFolded[s]
          /\ seen[s] # {}
          /\ MinOf(obj[s], 1) < MaxOf(obj[s], 1)
    /\ \E f \in ForecastDisplays : f \in notified

\* C8: outside a cycle every observer holds the reading it was notified of
\* last, with derived state computed from it (the forecast of that
\* reading; accumulators that take that reading in), or, if it was never
\* notified, the state its constructor gave it.
C8_ReflectsLatest ==
    pc = "idle" =>
        \A o \in Observers :
            IF o \notin notified
            THEN obj[o] = InitObj(o)
            ELSE LET r == LastDelivered(o)
                     a == obj[o]
                 IN  /\ Stored(a) = r
                     /\ o \in ForecastDisplays =>
                           /\ a.forcast_temp = ForecastTemp(r[1], r[2], r[3])
                           /\ a.forcast_humidity = ForecastHumidity(r[2])
                           /\ a.forcast_pressure = ForecastPressure(r[1], r[3])
                     /\ o \in StatsDisplays =>
                           \A f \in 1..3 :
                               /\ MinOf(a, f) <= Round2(r[f])
                               /\ Round2(r[f]) <= MaxOf(a, f)
                               /\ AvgOf(a, f) = Round2((MinOf(a, f) + MaxOf(a, f)) \div 2)

Abs(x) == IF x < 0 THEN 0 - x ELSE x

\* v, in thousandths, is a multiple of a hundredth nearest to exact / 100000
NearestHundredth(v, exact) == v % 10 = 0 /\ 2 * Abs(100 * v - exact) <= 1000

\* C9: the forecast a ForecastDisplay holds is that of the reading
\* delivered to it last, whatever was delivered before: each value is the
\* formula's value to 2 decimals, and for (78, 90, 29.2) the forecast is
\* (94.32, 9.0, 30.87).
C9_ForecastOfLatest ==
    \A o \in ForecastDisplays : o \in notified =>
        LET r == LastDelivered(o)
            a == obj[o]
        IN  /\ NearestHundredth(a.forcast_temp, 100 * r[1] + 11 * r[2] + 22 * r[3])
            /\ NearestHundredth(a.forcast_humidity, 100 * r[2] - 90 * r[2])
            /\ NearestHundredth(a.forcast_pressure, 100 * r[3] + 10 * r[1] - 21 * r[3])
            /\ r = <<78000, 90000, 29200>> =>
                  <<a.forcast_temp, a.forcast_humidity, a.forcast_pressure>>
                      = <<94320, 9000, 30870>>

\* A ForecastDisplay holds the forecast of (78, 90, 29.2), delivered after
\* two other readings (those a StatisticsDisplay registered along with it
\* has been given)
C9_Witness ==
    \E o \in ForecastDisplays :
        /\ nchanges = 0
        /\ pc = "idle"
        /\ \E s \in StatsDisplays : Cardinality(seen[s]) = 3
        /\ LastDelivered(o) = <<78000, 90000, 29200>>
        /\ obj[o].forcast_temp = 94320

\* C10: the list holds one entry per live registration, duplicates
\* included, in the order of registration, a removeObserver having taken
\* away the oldest entry of its observer and nothing else; and at the end
\* of a cycle each observer has had as many update invocations as it has
\* live registrations.
C10_NoDeduplication ==
    /\ observers = registered
    /\ CycleEnd => \A o \in Observers : Count(CallObs, o) = Count(registered, o)

\* A cycle ends in which an observer registered twice was updated twice
C10_Witness ==
    /\ CycleEnd
    /\ \E o \in Observers :
          /\ Count(observers, o) = 2
          /\ Count(CallObs, o) = 2

\* C11: a removeObserver(o) for an o with no entry in the list ends in
\* ValueError and changes nothing: the list, the station's reading and the
\* attributes of every observer are as before the call; no step takes an
\* entry off the list without withdrawing a live registration, and the
\* exception comes from no other call.
C11_RemoveAbsentFails ==
    [][/\ pc' = "ValueError" =>
             /\ pc = "idle"
             /\ \E o \in Observers : Count(observers, o) = 0
             /\ observers' = observers
             /\ station' = station
             /\ obj' = obj
             /\ received' = received
       /\ Len(observers') < Len(observers) => Len(registered') < Len(registered)]_vars

\* A removeObserver of an observer that was removed before has raised, after
\* a reading went out to the observers left
C11_Witness ==
    /\ pc = "ValueError"
    /\ Len(observers) = 2
    /\ station # <<0, 0, 0>>
    /\ \A i \in 1..Len(observers) : Stored(obj[observers[i]]) = station

\* C12: the station's reading is (0, 0, 0) until the first setMeasurements
\* and from then on is the argument triple of the last setMeasurements,
\* all three fields, already when the loop has not notified anyone yet;
\* every update invocation of a cycle receives that triple, and the reading
\* an observer was given last is always the triple of one call.
C12_AtomicReading ==
    /\ args = <<0, 0, 0>> => (station = <<0, 0, 0>> /\ notified = {})
    /\ args # <<0, 0, 0>> => args \in Readings
    /\ station = args
    /\ \A i \in 1..Len(calls) : calls[i].r = args
    /\ \A o \in notified : last[o] \in Readings

\* A later setMeasurements has stored its reading and has notified nobody
\* yet; the observers still hold the reading before it, which differs in
\* some fields and not in others
C12_Witness ==
    /\ pc = "notifying"
    /\ calls = <<>>
    /\ idx <= Len(observers)
    /\ station = args
    /\ \E o \in notified :
          /\ last[o] # args
          /\ last[o][3] = args[3]
          /\ Stored(obj[o]) = last[o]

\* The readings WeatherStation.main feeds, in order
DriverReadings == <<<<80000, 65000, 30400>>, <<82000, 70000, 29200>>, <<78000, 90000, 29200>>>>

\* What each display prints in the k-th call of the driver: the reading;
\* (min, max, average) of temperature, humidity, pressure; the forecast
DriverShown ==
    <<[current |-> <<80000, 65000, 30400>>,
       statistics |-> <<80000, 80000, 80000, 65000, 65000, 65000, 30400, 30400, 30400>>,
       forecast |-> <<93840, 6500, 32020>>],
      [current |-> <<82000, 70000, 29200>>,
       statistics |-> <<80000, 82000, 81000, 65000, 70000, 67500, 29200, 30400, 29800>>,
       forecast |-> <<96120, 7000, 31270>>],
      [current |-> <<78000, 90000, 29200>>,
       statistics |-> <<78000, 82000, 80000, 65000, 90000, 77500, 29200, 30400, 29800>>,
       forecast |-> <<94320, 9000, 30870>>]>>

\* The k-th setMeasurements of the driver has run its loop to the end: the
\* list is as the constructors left it, nothing but the driver's readings
\* up to the k-th has been delivered, and no display() ran before them
DriverCallEnds(k) ==
    /\ CycleEnd
    /\ nchanges = 0
    /\ \A o \in Observers : ~preFolded[o]
    /\ args = DriverReadings[k]
    /\ \A s \in StatsDisplays : seen[s] = {DriverReadings[j] : j \in 1..k}

\* C13: in the driver's run each of the three setMeasurements calls
\* invokes the displays once each in the order current, statistics,
\* forecast, and after the k-th call each display shows the values the
\* formulas give for the readings so far; after the third the statistics
\* are (78, 82, 80.0), (65, 90, 77.5), (29.2, 30.4, 29.8) and the forecast
\* is (94.32, 9.0, 30.87).
C13_DriverScenario ==
    \A k \in 1..3 :
        DriverCallEnds(k) =>
            /\ CallObs = DriverOrder
            /\ \A o \in Observers : Rendered(Kind(o), obj[o]) = DriverShown[k][Kind(o)]

\* The third call of the driver has run its loop to the end
C13_Witness ==
    /\ DriverCallEnds(3)
    /\ Len(calls) = 3
    /\ obj["statistics"].average_humidity = 77500
    /\ obj["forecast"].forcast_pressure = 30870

\* Attributes a of a display of class k show values derived from reading r
ShowsReading(k, a, r) ==
    /\ Stored(a) = r
    /\ k = "current" => Rendered(k, a) = r
    /\ k = "forecast" =>
          /\ NearestHundredth(a.forcast_temp, 100 * r[1] + 11 * r[2] + 22 * r[3])
          /\ NearestHundredth(a.forcast_humidity, 100 * r[2] - 90 * r[2])
          /\ NearestHundredth(a.forcast_pressure, 100 * r[3] + 10 * r[1] - 21 * r[3])
    /\ k = "statistics" =>
          \A f \in 1..3 :
              /\ MinOf(a, f) <= Round2(r[f])
              /\ Round2(r[f]) <= MaxOf(a, f)
              /\ MinOf(a, f) <= AvgOf(a, f)
              /\ AvgOf(a, f) <= MaxOf(a, f)

\* C14: inside setMeasurements the observers are served one after the
\* other, each update complete with its display() before the next begins:
\* when the iterator stands at position i, exactly the i - 1 entries before
\* it have been updated, and each of them already shows values derived
\* from the reading of this call, not from the one before; when the loop
\* has ended, and so before setMeasurements returns, every entry of the
\* list has been updated and has displayed.
C14_SynchronousChain ==
    pc = "notifying" =>
        /\ Len(calls) = idx - 1
        /\ \A i \in 1..Len(calls) :
              /\ i <= Len(observers)
              /\ calls[i].ob = observers[i]
              /\ ShowsReading(Kind(calls[i].ob), obj[calls[i].ob], args)
        /\ CycleEnd =>
              \A j \in 1..Len(observers) :
                  /\ j <= Len(calls)
                  /\ ShowsReading(Kind(observers[j]), obj[observers[j]], args)

\* In the middle of a cycle of a later reading: a forecast display has
\* been updated and shows the new reading, while the observer next in the
\* list still holds the reading before it
C14_Witness ==
    /\ pc = "notifying"
    /\ 1 <= Len(calls)
    /\ idx <= Len(observers)
    /\ calls[Len(calls)].ob \in ForecastDisplays
    /\ observers[idx] \in notified
    /\ Stored(obj[observers[idx]]) # args
    /\ Stored(obj[observers[idx]]) = last[observers[idx]]

\* C15: whatever the callbacks do to the list during a cycle, the cycle
\* makes no more update invocations than the list had entries when the
\* cycle began (none when the list was empty), and then returns.
C15_BoundedFanOut ==
    pc = "notifying" =>
        /\ Len(calls) <= Len(startList)
        /\ (startList = <<>> => CycleEnd)

\* The loop has gone past the number of entries the list had when the
\* cycle began, over entries a callback added during the cycle
C15_Witness ==
    /\ pc = "notifying"
    /\ Len(observers) > Len(startList)
    /\ idx > Len(startList)
    /\ idx <= Len(observers)

\* C16: a step that adds an entry to the list starts no cycle, invokes no
\* update and changes nothing but the list: the station's reading and the
\* attributes of every observer stay as they are. So an observer no update
\* has been invoked on holds the state its constructor gave it, stored
\* fields (0, 0, 0) and sentinel accumulators, whatever the station holds
\* and whether or not it is in the list (a display() invoked on it by a
\* caller aside).
C16_RegisterSilent ==
    /\ [](\A o \in Observers : (o \notin notified /\ ~preFolded[o]) => obj[o] = InitObj(o))
    /\ [][Len(observers') > Len(observers) =>
             /\ obj' = obj
             /\ station' = station
             /\ received' = received
             /\ pc' = pc
             /\ calls' = calls]_vars

\* A StatisticsDisplay is in the list of a station that holds a reading
\* other observers have been given, and has itself been given none
C16_Witness ==
    \E o \in StatsDisplays :
        /\ pc = "idle"
        /\ o \in Range(observers)
        /\ o \notin notified
        /\ station # <<0, 0, 0>>
        /\ \E p \in Observers : p \in notified /\ Stored(obj[p]) = station
        /\ Stored(obj[o]) = <<0, 0, 0>>
        /\ MinOf(obj[o], 1) = PosInf

\* display() has run on StatisticsDisplay s: inside an update, or called
\* by a caller before any update
HasDisplayed(s) == s \in notified \/ preFolded[s]

\* C17: for every StatisticsDisplay on which display() has run and for
\* each field, min <= average <= max; and no step raises a min or lowers a
\* max.
C17_StatsOrdered ==
    /\ [](\A s \in StatsDisplays : HasDisplayed(s) =>
             \A f \in 1..3 :
                 /\ MinOf(obj[s], f) <= AvgOf(obj[s], f)
                 /\ AvgOf(obj[s], f) <= MaxOf(obj[s], f))
    /\ [][\A s \in StatsDisplays : \A f \in 1..3 :
             /\ MinOf(obj'[s], f) <= MinOf(obj[s], f)
             /\ MaxOf(obj'[s], f) >= MaxOf(obj[s], f)]_vars

\* A StatisticsDisplay has been given several readings, the last of them
\* neither the lowest nor the highest temperature, and its average lies
\* strictly between a negative min and a positive max
C17_Witness ==
    \E s \in StatsDisplays :
        /\ Cardinality(seen[s]) >= 3
        /\ MinOf(obj[s], 1) < 0
        /\ MinOf(obj[s], 1) < AvgOf(obj[s], 1)
        /\ AvgOf(obj[s], 1) < MaxOf(obj[s], 1)
        /\ MinOf(obj[s], 1) < Round2(LastDelivered(s)[1])
        /\ Round2(LastDelivered(s)[1]) < MaxOf(obj[s], 1)

\* List t is list s with one entry added at the end
AppendsOne(s, t) == Len(t) = Len(s) + 1 /\ \A k \in 1..Len(s) : t[k] = s[k]

\* List t is list s with one entry deleted, the others in their order
DeletesOne(s, t) ==
    /\ Len(t) = Len(s) - 1
    /\ \E i \in 1..Len(s) :
          \A k \in 1..Len(t) : t[k] = IF k < i THEN s[k] ELSE s[k + 1]

\* C18: a step changes the list only as a registerObserver or a
\* removeObserver call, adding one entry at the end or deleting one entry;
\* the steps of setMeasurements and of the loop of notifyObservers, and
\* every step in which update or display() changes an observer's
\* attributes, leave the list as it is; and a step that invokes update on
\* one observer leaves the attributes of all the others as they are.
C18_ListFrame ==
    [][/\ observers' # observers =>
             /\ pc = "idle"
             /\ pc' = "idle"
             /\ nchanges' = nchanges + 1
             /\ AppendsOne(observers, observers') \/ DeletesOne(observers, observers')
       /\ (pc = "notifying" \/ pc' = "notifying") => observers' = observers
       /\ (obj' # obj \/ station' # station) => observers' = observers
       /\ Len(calls') > Len(calls) =>
             \A p \in Observers \ {calls'[Len(calls')].ob} : obj'[p] = obj[p]]_vars

\* In a cycle over a list that registerObserver and removeObserver have
\* rearranged, the first observers have been updated and one further down
\* the list still holds the reading of the cycle before
C18_Witness ==
    /\ pc = "notifying"
    /\ nchanges = 2
    /\ observers # DriverOrder
    /\ observers = startList
    /\ Len(calls) >= 2
    /\ \E j \in idx..Len(observers) :
          /\ observers[j] \in notified
          /\ Stored(obj[observers[j]]) # args
          /\ Count(observers, observers[j]) = 1

====
